---- MODULE Spec2Model ----
(***************************************************************************)
(* A model of google-photos-fixer.py (class GooglePhotosFixer).            *)
(*                                                                         *)
(* Strings are sequences of one-character strings, so that the regular     *)
(* expressions, the substring tests and the replacements of the program    *)
(* are computed position by position, as Python computes them.  The        *)
(* filesystem is a function from the paths of the existing files to their  *)
(* content.  The alphabet of the modelled names holds no newline.          *)
(***************************************************************************)
EXTENDS Integers, Sequences, FiniteSets, TLC

VARIABLES
    takeout_dir,   \* self.takeout_dir
    fs,            \* the files on disk: path -> content
    fixes,         \* self.fixes
    errors,        \* self.errors
    pc,            \* position in execute (or in the single call of SpecInfer)
    json_files,    \* execute's json_files, in discovery order
    image_files,   \* execute's image_files, in discovery order
    idx,           \* index of the next element of the list being walked
    not_found,     \* execute's not_found
    run,           \* how many times execute was started on this tree
    fs0,           \* history: the files on disk when the current run started
    prev,          \* history: the last handler call and the state it started in
    image_file,    \* SpecInfer: the argument of infer_time_from_image_file
    time           \* SpecInfer: what infer_time_from_image_file returned

vars == <<takeout_dir, fs, fixes, errors, pc, json_files, image_files, idx,
          not_found, run, fs0, prev, image_file, time>>

-----------------------------------------------------------------------------
(* Bounds of the model.                                                    *)

\* at most this many files on disk when the first run starts
MaxFiles == 3
\* execute is started at most this many times on one tree
MaxRuns == 2

-----------------------------------------------------------------------------
(* Python string primitives.                                               *)

Digits == {"0", "1", "2", "3", "4", "5", "6", "7", "8", "9"}

IsDigit(c) == c \in Digits

DigitVal(c) ==
    CASE c = "0" -> 0 [] c = "1" -> 1 [] c = "2" -> 2 [] c = "3" -> 3
      [] c = "4" -> 4 [] c = "5" -> 5 [] c = "6" -> 6 [] c = "7" -> 7
      [] c = "8" -> 8 [] c = "9" -> 9

RECURSIVE ToInt(_)
\* int(x) of a string of digits
ToInt(s) ==
    IF Len(s) = 0 THEN 0
    ELSE 10 * ToInt(SubSeq(s, 1, Len(s) - 1)) + DigitVal(s[Len(s)])

\* s[i-1:j] holds only digits
AllDigits(s, i, j) == \A k \in i..j : k \in 1..Len(s) /\ IsDigit(s[k])

\* sub occurs in s at position i
StartsAt(s, sub, i) ==
    /\ i >= 1
    /\ i + Len(sub) - 1 <= Len(s)
    /\ \A k \in 1..Len(sub) : s[i + k - 1] = sub[k]

\* s.endswith(sub)
EndsWith(s, sub) == Len(sub) <= Len(s) /\ StartsAt(s, sub, Len(s) - Len(sub) + 1)

RECURSIVE FindFrom(_, _, _)
\* the leftmost occurrence of sub in s at position i or later, 0 when none
FindFrom(s, sub, i) ==
    IF i + Len(sub) - 1 > Len(s) THEN 0
    ELSE IF StartsAt(s, sub, i) THEN i
    ELSE FindFrom(s, sub, i + 1)

\* s.find(sub) + 1: the leftmost occurrence, 0 when there is none
Find(s, sub) == FindFrom(s, sub, 1)

\* sub in s
Contains(s, sub) == Find(s, sub) # 0

RECURSIVE RFindFrom(_, _, _)
\* the rightmost position of the character c in s[:i], 0 when none
RFindFrom(s, c, i) ==
    IF i = 0 THEN 0
    ELSE IF s[i] = c THEN i
    ELSE RFindFrom(s, c, i - 1)

\* s.rfind(c) + 1 for a single character c
RFind(s, c) == RFindFrom(s, c, Len(s))

RECURSIVE First(_, _, _)
\* the least i in lo..Len(s) with P(s, i), 0 when there is none: the start of
\* the leftmost match, which is the one re.search returns
First(P(_, _), s, lo) ==
    IF lo > Len(s) THEN 0
    ELSE IF P(s, lo) THEN lo
    ELSE First(P, s, lo + 1)

RECURSIVE Last(_, _, _)
\* the greatest i in 1..hi with P(s, i), 0 when there is none
Last(P(_, _), s, hi) ==
    IF hi < 1 THEN 0
    ELSE IF P(s, hi) THEN hi
    ELSE Last(P, s, hi - 1)

RECURSIVE Replace(_, _, _)
\* s.replace(old, new): every non-overlapping occurrence, left to right
Replace(s, old, new) ==
    LET i == Find(s, old)
    IN  IF i = 0 \/ Len(old) = 0 THEN s
        ELSE SubSeq(s, 1, i - 1) \o new
             \o Replace(SubSeq(s, i + Len(old), Len(s)), old, new)

LowerChar(c) ==
    CASE c = "J" -> "j" [] c = "P" -> "p" [] c = "G" -> "g"
      [] c = "S" -> "s" [] c = "O" -> "o" [] c = "N" -> "n"
      [] OTHER -> c

\* s.lower()
lower(s) == [i \in 1..Len(s) |-> LowerChar(s[i])]

\* os.path.basename(p)
basename(p) == SubSeq(p, RFind(p, "/") + 1, Len(p))

\* os.path.dirname(p): the head up to the last slash, trailing slashes stripped
\* unless the head is nothing but slashes
dirname(p) ==
    LET head == SubSeq(p, 1, RFind(p, "/"))
        NotSlash(s, k) == s[k] # "/"
        keep == Last(NotSlash, head, Len(head))
    IN  IF keep = 0 THEN head ELSE SubSeq(head, 1, keep)

\* os.path.join(a, b) for a relative b
join(a, b) ==
    IF Len(a) = 0 \/ a[Len(a)] = "/" THEN a \o b ELSE a \o <<"/">> \o b

\* os.path.splitext(p): the extension starts at the last dot of the last
\* component, unless only dots precede it in that component
splitext(p) ==
    LET sepIndex == RFind(p, "/")
        dotIndex == RFind(p, ".")
    IN  IF dotIndex > sepIndex
           /\ \E k \in (sepIndex + 1)..(dotIndex - 1) : p[k] # "."
        THEN <<SubSeq(p, 1, dotIndex - 1), SubSeq(p, dotIndex, Len(p))>>
        ELSE <<p, <<>>>>

-----------------------------------------------------------------------------
(* Class constants and the small accessors.                                *)

METADATA_JSON ==
    <<"s","u","p","p","l","e","m","e","n","t","a","l","-",
      "m","e","t","a","d","a","t","a",".","j","s","o","n">>

SUPPORTED_IMAGE_EXT ==
    { <<".","j","p","g">>, <<".","j","p","e","g">>, <<".","p","n","g">>,
      <<".","g","i","f">>, <<".","w","e","b","p">>, <<".","h","e","i","c">>,
      <<".","m","o","v">>, <<".","m","p","4">>, <<".","3","g","p">>,
      <<".","a","v","i">>, <<".","m","k","v">>, <<".","w","e","b","m">> }

filename(fullpath_filename) == basename(fullpath_filename)

filename_without_ext(name) == splitext(basename(name))[1]

metadata_file_for(img) == img \o <<".">> \o METADATA_JSON

-----------------------------------------------------------------------------
(* datetime and infer_time_from_image_file.                                *)

\* what a call yields: a datetime, None, or a ValueError that propagates
None == [tag |-> "None", dt |-> <<>>]

ValueError == [tag |-> "raise", dt |-> <<>>]

IsLeap(y) == (y % 4 = 0 /\ y % 100 # 0) \/ y % 400 = 0

DaysInMonth(y, m) ==
    IF m \in {4, 6, 9, 11} THEN 30
    ELSE IF m = 2 THEN (IF IsLeap(y) THEN 29 ELSE 28)
    ELSE 31

\* datetime(year, month, day, hour, minute, second, microsecond): the
\* constructor raises ValueError outside MINYEAR..MAXYEAR and the field ranges
datetime(y, mo, d, h, mi, s, us) ==
    IF /\ y >= 1 /\ y <= 9999
       /\ mo >= 1 /\ mo <= 12
       /\ d >= 1 /\ d <= DaysInMonth(y, mo)
       /\ h >= 0 /\ h <= 23
       /\ mi >= 0 /\ mi <= 59
       /\ s >= 0 /\ s <= 59
       /\ us >= 0 /\ us <= 999999
    THEN [tag |-> "datetime", dt |-> <<y, mo, d, h, mi, s, us>>]
    ELSE ValueError

\* r'(\d{4})(\d{2})(\d{2})_(\d{2})(\d{2})(\d{2})' matches s at position i
MatchStampAt(s, i) ==
    /\ i >= 1 /\ i + 14 <= Len(s)
    /\ AllDigits(s, i, i + 7)
    /\ s[i + 8] = "_"
    /\ AllDigits(s, i + 9, i + 14)

\* a search that keeps the rightmost match instead of the leftmost
SearchStampLast(s) == Last(MatchStampAt, s, Len(s))

\* re.search of the pattern above: the leftmost match, 0 when there is none
SearchStamp(s) == First(MatchStampAt, s, 1)

\* r'(\d{4})(\d{2})(\d{2})(\d{2})(\d{2})(\d{2})(\d{3})': 17 digits in a row
SearchMillis(s) ==
    LET M(x, i) == i + 16 <= Len(x) /\ AllDigits(x, i, i + 16)
    IN  First(M, s, 1)

\* r'_(\d{4})(\d{2})(\d{2})(\d{2})(\d{2})(\d{2})_'
SearchUnderscored(s) ==
    LET M(x, i) == /\ i + 15 <= Len(x)
                   /\ x[i] = "_"
                   /\ AllDigits(x, i + 1, i + 14)
                   /\ x[i + 15] = "_"
    IN  First(M, s, 1)

PhotosFrom == <<"P","h","o","t","o","s"," ","f","r","o","m"," ">>

\* r'Photos from (\d{4})/' searched in the whole path; the value is the
\* position of the first digit
SearchDirYear(p) ==
    LET M(x, i) == /\ StartsAt(x, PhotosFrom, i)
                   /\ i + 16 <= Len(x)
                   /\ AllDigits(x, i + 12, i + 15)
                   /\ x[i + 16] = "/"
        m == First(M, p, 1)
    IN  IF m = 0 THEN 0 ELSE m + 12

\* int() of the digits s[i-1 : i-1+n]
Group(s, i, n) == ToInt(SubSeq(s, i, i + n - 1))

InvalidDate(img) == [kind |-> "Invalid date in filename", file |-> img]

\* the try/except around a datetime built from a filename: ValueError becomes
\* one recorded error and a None result
Guarded(d, img) ==
    IF d = ValueError THEN [ret |-> None, errors |-> <<InvalidDate(img)>>]
    ELSE [ret |-> d, errors |-> <<>>]

\* infer_time_from_image_file: ret is what the call yields, errors what it
\* appends to self.errors
infer_time_from_image_file(img) ==
    LET name == filename_without_ext(img)
        m1 == SearchStamp(name)
        m2 == SearchMillis(name)
        m3 == SearchUnderscored(name)
        m4 == SearchDirYear(img)
    IN  IF m1 # 0 THEN
            Guarded(datetime(Group(name, m1, 4), Group(name, m1 + 4, 2),
                             Group(name, m1 + 6, 2), Group(name, m1 + 9, 2),
                             Group(name, m1 + 11, 2), Group(name, m1 + 13, 2), 0),
                    img)
        ELSE IF m2 # 0 THEN
            Guarded(datetime(Group(name, m2, 4), Group(name, m2 + 4, 2),
                             Group(name, m2 + 6, 2), Group(name, m2 + 8, 2),
                             Group(name, m2 + 10, 2), Group(name, m2 + 12, 2),
                             Group(name, m2 + 14, 3) * 1000),
                    img)
        ELSE IF m3 # 0 THEN
            Guarded(datetime(Group(name, m3 + 1, 4), Group(name, m3 + 5, 2),
                             Group(name, m3 + 7, 2), Group(name, m3 + 9, 2),
                             Group(name, m3 + 11, 2), Group(name, m3 + 13, 2), 0),
                    img)
        ELSE IF m4 # 0 THEN
            \* not inside a try: a ValueError propagates to the caller
            [ret |-> datetime(Group(img, m4, 4), 1, 1, 0, 0, 0, 0), errors |-> <<>>]
        ELSE [ret |-> None, errors |-> <<>>]

-----------------------------------------------------------------------------
(* The file primitives.  A call works on st = [fs, fixes, errors, raised]: *)
(* the disk, the two lists, and whether an exception is propagating.       *)

\* the content of a file the export wrote at path p
Export(p) == [kind |-> "export", title |-> p, time |-> <<>>]

\* json_content of generate_metadata_for_image_file; both times are str(time)
\* of the same datetime, kept once
Synth(img, t) == [kind |-> "synth", title |-> filename(img), time |-> t.dt]

exists(st, p) == p \in DOMAIN st.fs

\* copy_file: shutil.copy2 writes destination whether or not it exists
copy_file(st, origin, destination) ==
    [st EXCEPT
        !.fs = [q \in DOMAIN st.fs \cup {destination} |->
                    IF q = destination THEN st.fs[origin] ELSE st.fs[q]],
        !.fixes = Append(st.fixes, [kind |-> "copied", from |-> filename(origin),
                                    to |-> filename(destination)])]

\* move_file: shutil.move renames over an existing destination file
move_file(st, origin, destination) ==
    [st EXCEPT
        !.fs = [q \in (DOMAIN st.fs \ {origin}) \cup {destination} |->
                    IF q = destination THEN st.fs[origin] ELSE st.fs[q]],
        !.fixes = Append(st.fixes, [kind |-> "moved", from |-> filename(origin),
                                    to |-> filename(destination)])]

\* write_file
write_file(st, name, content) ==
    [st EXCEPT
        !.fs = [q \in DOMAIN st.fs \cup {name} |->
                    IF q = name THEN content ELSE st.fs[q]],
        !.fixes = Append(st.fixes, [kind |-> "written", from |-> filename(name),
                                    to |-> filename(name)])]

-----------------------------------------------------------------------------
(* generate_metadata_for_image_file.                                       *)

UnableToInfer(img) == [kind |-> "Unable to infer metadata", file |-> img]

\* a synthesis that does not look for an existing sidecar first
generate_unguarded(st, img) ==
    LET r == infer_time_from_image_file(img)
        s1 == [st EXCEPT !.errors = st.errors \o r.errors]
    IN  IF r.ret = ValueError THEN [s1 EXCEPT !.raised = TRUE]
        ELSE IF r.ret # None
        THEN write_file(s1, metadata_file_for(img), Synth(img, r.ret))
        ELSE [s1 EXCEPT !.errors = Append(s1.errors, UnableToInfer(img))]

generate_metadata_for_image_file(st, img) ==
    LET metadata_filename == metadata_file_for(img)
    IN  IF exists(st, metadata_filename) THEN st
        ELSE
            LET r == infer_time_from_image_file(img)
                s1 == [st EXCEPT !.errors = st.errors \o r.errors]
            IN  IF r.ret = ValueError THEN [s1 EXCEPT !.raised = TRUE]
                ELSE IF r.ret # None
                THEN write_file(s1, metadata_filename, Synth(img, r.ret))
                ELSE [s1 EXCEPT !.errors = Append(s1.errors, UnableToInfer(img))]

-----------------------------------------------------------------------------
(* fix_divergent_metadata_filename.                                        *)

SUPPL_JSON == <<".","s","u","p","p","l",".","j","s","o","n">>

\* re.sub(r'\.suppl\.json$', '.supplemental-metadata.json', json_file)
sub_suppl(json_file) ==
    IF EndsWith(json_file, SUPPL_JSON)
    THEN SubSeq(json_file, 1, Len(json_file) - Len(SUPPL_JSON))
         \o <<".">> \o METADATA_JSON
    ELSE json_file

\* st is the state after the call, ret the name the call returns
fix_divergent_metadata_filename(st, json_file) ==
    LET fixed_json_file == sub_suppl(json_file)
    IN  IF ~EndsWith(json_file, METADATA_JSON) /\ fixed_json_file # json_file
        THEN [st |-> move_file(st, json_file, fixed_json_file), ret |-> fixed_json_file]
        ELSE [st |-> st, ret |-> json_file]

-----------------------------------------------------------------------------
(* fix_metadata_file_for_image.                                            *)

EDITADA == <<"-","e","d","i","t","a","d","a">>

SUPPLEMENTAL_METADATA == <<".","s","u","p","p","l","e","m","e","n","t","a","l","-","m","e","t","a","d","a","t","a">>

DOT_JSON == <<".","j","s","o","n">>

\* re.search(r'(\(\d+\))$', s): the position of the parenthesis that opens
\* a "(digits)" group ending s, 0 when there is none
SearchNum(s) ==
    LET M(x, i) == /\ x[i] = "("
                   /\ x[Len(x)] = ")"
                   /\ i + 1 <= Len(x) - 1
                   /\ AllDigits(x, i + 1, Len(x) - 1)
    IN  First(M, s, 1)

\* s.rsplit('.', 1)[0] + '.' + s.rsplit('.', 1)[1]: s again when it holds a
\* dot (the caller models the IndexError of a name without one)
rsplit_rejoin(s) ==
    LET d == RFind(s, ".")
    IN  IF d = 0 THEN <<>>
        ELSE SubSeq(s, 1, d - 1) \o <<".">> \o SubSeq(s, d + 1, Len(s))

\* the first half: the sidecar of the "-editada" version
fix_editada(st, img) ==
    IF Contains(img, EDITADA)
    THEN LET original_file == Replace(img, EDITADA, <<>>)
             original_meta == original_file \o <<".">> \o METADATA_JSON
             edited_meta == img \o <<".">> \o METADATA_JSON
         IN  IF exists(st, original_meta)
             THEN copy_file(st, original_meta, edited_meta)
             ELSE st
    ELSE st

AlreadyExist(f) == [kind |-> "Metadata file already exist", file |-> f]

NotExist(f, img) == [kind |-> "Metadata file not exist for image", file |-> f]

\* the second half: the sidecar of a numbered duplicate
fix_sequential(st, img) ==
    LET filename_no_ext == filename_without_ext(img)
        m == SearchNum(filename_no_ext)
    IN  IF m = 0 THEN st
        ELSE
            LET num == SubSeq(filename_no_ext, m, Len(filename_no_ext))
                removed == Replace(filename(img), num, <<>>)
                filename_without_num == rsplit_rejoin(removed)
                dir_path == dirname(img)
                wrong_json_file ==
                    join(dir_path, filename_without_num \o SUPPLEMENTAL_METADATA
                                   \o num \o DOT_JSON)
                fixed_json_file ==
                    join(dir_path, filename(img) \o <<".">> \o METADATA_JSON)
            IN  IF RFind(removed, ".") = 0 THEN [st EXCEPT !.raised = TRUE]
                ELSE IF exists(st, wrong_json_file)
                THEN IF exists(st, fixed_json_file)
                     THEN [st EXCEPT !.errors =
                               Append(st.errors, AlreadyExist(fixed_json_file))]
                     ELSE move_file(st, wrong_json_file, fixed_json_file)
                ELSE [st EXCEPT !.errors =
                          Append(st.errors, NotExist(wrong_json_file, img))]

fix_metadata_file_for_image(st, img) == fix_sequential(fix_editada(st, img), img)

-----------------------------------------------------------------------------
(* The trees the runs start from.                                          *)

\* the directories execute may be given
TakeoutDirs == { <<"/","t">>, <<"/","e","-","e","d","i","t","a","d","a">> }

\* <<directory, file name>> of the files a tree may hold under its root
Entries ==
    {
      \* Photos from 2019/a.jpg
      <<<<"P","h","o","t","o","s"," ","f","r","o","m"," ","2","0","1","9">>, <<"a",".","j","p","g">>>>,
      \* Photos from 2019/a-editada.jpg
      <<<<"P","h","o","t","o","s"," ","f","r","o","m"," ","2","0","1","9">>, <<"a","-","e","d","i","t","a","d","a",".","j","p","g">>>>,
      \* Photos from 2019/a(2).jpg
      <<<<"P","h","o","t","o","s"," ","f","r","o","m"," ","2","0","1","9">>, <<"a","(","2",")",".","j","p","g">>>>,
      \* Photos from 2019/b.JPG
      <<<<"P","h","o","t","o","s"," ","f","r","o","m"," ","2","0","1","9">>, <<"b",".","J","P","G">>>>,
      \* Photos from 2019/20211340_250000.jpg
      <<<<"P","h","o","t","o","s"," ","f","r","o","m"," ","2","0","1","9">>, <<"2","0","2","1","1","3","4","0","_","2","5","0","0","0","0",".","j","p","g">>>>,
      \* Photos from 2019/a.jpg.supplemental-metadata.json
      <<<<"P","h","o","t","o","s"," ","f","r","o","m"," ","2","0","1","9">>, <<"a",".","j","p","g",".","s","u","p","p","l","e","m","e","n","t","a","l","-","m","e","t","a","d","a","t","a",".","j","s","o","n">>>>,
      \* Photos from 2019/a-editada.jpg.supplemental-metadata.json
      <<<<"P","h","o","t","o","s"," ","f","r","o","m"," ","2","0","1","9">>, <<"a","-","e","d","i","t","a","d","a",".","j","p","g",".","s","u","p","p","l","e","m","e","n","t","a","l","-","m","e","t","a","d","a","t","a",".","j","s","o","n">>>>,
      \* Photos from 2019/a.jpg.suppl.json
      <<<<"P","h","o","t","o","s"," ","f","r","o","m"," ","2","0","1","9">>, <<"a",".","j","p","g",".","s","u","p","p","l",".","j","s","o","n">>>>,
      \* Photos from 2019/a.jpg.supplemental-metadata(2).json
      <<<<"P","h","o","t","o","s"," ","f","r","o","m"," ","2","0","1","9">>, <<"a",".","j","p","g",".","s","u","p","p","l","e","m","e","n","t","a","l","-","m","e","t","a","d","a","t","a","(","2",")",".","j","s","o","n">>>>,
      \* Photos from 2019/a.supplemental-metadata(2).json
      <<<<"P","h","o","t","o","s"," ","f","r","o","m"," ","2","0","1","9">>, <<"a",".","s","u","p","p","l","e","m","e","n","t","a","l","-","m","e","t","a","d","a","t","a","(","2",")",".","j","s","o","n">>>>,
      \* Photos from 2019/a(2).jpg.supplemental-metadata.json
      <<<<"P","h","o","t","o","s"," ","f","r","o","m"," ","2","0","1","9">>, <<"a","(","2",")",".","j","p","g",".","s","u","p","p","l","e","m","e","n","t","a","l","-","m","e","t","a","d","a","t","a",".","j","s","o","n">>>>,
      \* Photos from 0000/a.jpg
      <<<<"P","h","o","t","o","s"," ","f","r","o","m"," ","0","0","0","0">>, <<"a",".","j","p","g">>>>,
      \* Photos from 20191/a.jpg
      <<<<"P","h","o","t","o","s"," ","f","r","o","m"," ","2","0","1","9","1">>, <<"a",".","j","p","g">>>>,
      \* xPhotos from 2019/a.jpg.suppl.json
      <<<<"x","P","h","o","t","o","s"," ","f","r","o","m"," ","2","0","1","9">>, <<"a",".","j","p","g",".","s","u","p","p","l",".","j","s","o","n">>>>,
      \* misc/a.jpg
      <<<<"m","i","s","c">>, <<"a",".","j","p","g">>>>,
      \* misc/a.jpg.suppl.json
      <<<<"m","i","s","c">>, <<"a",".","j","p","g",".","s","u","p","p","l",".","j","s","o","n">>>>
    }

Universe(root) == {join(join(root, e[1]), e[2]) : e \in Entries}

\* the disks of at most MaxFiles exported files
Trees(root) ==
    {[q \in S |-> Export(q)] :
        S \in {T \in SUBSET Universe(root) : Cardinality(T) <= MaxFiles}}

-----------------------------------------------------------------------------
(* execute.                                                                *)

RECURSIVE Perms(_)
\* the sequences that list every element of S once
Perms(S) ==
    IF S = {} THEN {<<>>}
    ELSE UNION {{<<x>> \o q : q \in Perms(S \ {x})} : x \in S}

RECURSIVE WalkOrders(_)
\* the orders os.walk may list the files in: the files of one directory
\* come together, in any order
WalkOrders(S) ==
    IF S = {} THEN {<<>>}
    ELSE UNION {LET here == {f \in S : dirname(f) = d}
                IN  {a \o b : a \in Perms(here), b \in WalkOrders(S \ here)}
                : d \in {dirname(f) : f \in S}}

\* re.search(r'Photos from (\d+)$', os.path.dirname(f))
IsYearFile(f) ==
    LET M(x, i) == /\ StartsAt(x, PhotosFrom, i)
                   /\ i + 12 <= Len(x)
                   /\ AllDigits(x, i + 12, Len(x))
    IN  First(M, dirname(f), 1) # 0

\* os.path.splitext(f)[1].lower() in self.SUPPORTED_IMAGE_EXT
IsImage(f) == lower(splitext(f)[2]) \in SUPPORTED_IMAGE_EXT

\* os.path.splitext(f)[1].lower() == '.json'
IsJson(f) == lower(splitext(f)[2]) = DOT_JSON

\* f lies under the directory root
Under(root, f) == StartsAt(f, root \o <<"/">>, 1)

St == [fs |-> fs, fixes |-> fixes, errors |-> errors, raised |-> FALSE]

NoCall == [op |-> "none", arg |-> <<>>, fs |-> <<>>, fixes |-> <<>>, errors |-> <<>>]

Call(op, arg) == [op |-> op, arg |-> arg, fs |-> fs, fixes |-> fixes, errors |-> errors]

\* [img for img in image_files if not os.path.exists(self.metadata_file_for(img))]
NotFoundInitially(imgs, disk) ==
    LET Missing(img) == metadata_file_for(img) \notin DOMAIN fs0
    IN  SelectSeq(imgs, Missing)

NotFound(imgs, disk) ==
    LET Missing(img) == metadata_file_for(img) \notin DOMAIN disk
    IN  SelectSeq(imgs, Missing)

Init ==
    /\ takeout_dir \in TakeoutDirs
    /\ fs \in Trees(takeout_dir)
    /\ fixes = <<>>
    /\ errors = <<>>
    /\ pc = "start"
    /\ json_files = <<>>
    /\ image_files = <<>>
    /\ idx = 1
    /\ not_found = <<>>
    /\ run = 1
    /\ fs0 = fs
    /\ prev = NoCall
    /\ image_file = <<>>
    /\ time = None

\* reset, the walk and the three filters
Scan ==
    /\ pc = "start"
    \* each filter is computed once (bound over a one-element set), then the
    \* walk order is chosen
    /\ \E found \in {{f \in DOMAIN fs : Under(takeout_dir, f)}} :
       \E years \in {{f \in found : IsYearFile(f)}} :
       \E images \in {{f \in years : IsImage(f)}}, jsons \in {{f \in years : IsJson(f)}} :
       \E all_files \in WalkOrders(found) :
          LET InYears(f) == f \in years
              InImages(f) == f \in images
              InJsons(f) == f \in jsons
              years_files == SelectSeq(all_files, InYears)
          IN  /\ image_files' = SelectSeq(years_files, InImages)
              /\ json_files' = SelectSeq(years_files, InJsons)
    /\ fixes' = <<>>
    /\ errors' = <<>>
    /\ idx' = 1
    /\ not_found' = <<>>
    /\ pc' = "normalize"
    /\ fs0' = fs
    /\ prev' = NoCall
    /\ UNCHANGED <<takeout_dir, fs, run, image_file, time>>

\* one element of [self.fix_divergent_metadata_filename(jf) for jf in json_files]
Normalize ==
    /\ pc = "normalize"
    /\ idx <= Len(json_files)
    /\ LET r == fix_divergent_metadata_filename(St, json_files[idx])
       IN  /\ fs' = r.st.fs
           /\ fixes' = r.st.fixes
           /\ errors' = r.st.errors
           /\ json_files' = [json_files EXCEPT ![idx] = r.ret]
    /\ prev' = Call("normalize", json_files[idx])
    /\ idx' = idx + 1
    /\ UNCHANGED <<takeout_dir, pc, image_files, not_found, run, fs0,
                   image_file, time>>

\* the comprehension is exhausted: on to the loop over image_files
NormalizeDone ==
    /\ pc = "normalize"
    /\ idx > Len(json_files)
    /\ pc' = "fix"
    /\ idx' = 1
    /\ UNCHANGED <<takeout_dir, fs, fixes, errors, json_files, image_files,
                   not_found, run, fs0, prev, image_file, time>>

\* self.fix_metadata_file_for_image(img)
Fix ==
    /\ pc = "fix"
    /\ idx <= Len(image_files)
    /\ LET s1 == fix_metadata_file_for_image(St, image_files[idx])
       IN  /\ fs' = s1.fs
           /\ fixes' = s1.fixes
           /\ errors' = s1.errors
           /\ pc' = IF s1.raised THEN "crashed" ELSE "generate"
    /\ prev' = Call("fix", image_files[idx])
    /\ UNCHANGED <<takeout_dir, json_files, image_files, idx, not_found, run,
                   fs0, image_file, time>>

\* self.generate_metadata_for_image_file(img); an exception ends the process
Generate ==
    /\ pc = "generate"
    /\ LET s1 == generate_metadata_for_image_file(St, image_files[idx])
       IN  /\ fs' = s1.fs
           /\ fixes' = s1.fixes
           /\ errors' = s1.errors
           /\ pc' = IF s1.raised THEN "crashed" ELSE "fix"
    /\ prev' = Call("generate", image_files[idx])
    /\ idx' = idx + 1
    /\ UNCHANGED <<takeout_dir, json_files, image_files, not_found, run, fs0,
                   image_file, time>>

\* the loop is exhausted: the reports and not_found
Report ==
    /\ pc = "fix"
    /\ idx > Len(image_files)
    /\ not_found' = NotFound(image_files, fs)
    /\ pc' = "done"
    /\ UNCHANGED <<takeout_dir, fs, fixes, errors, json_files, image_files,
                   idx, run, fs0, prev, image_file, time>>

\* the program is started again on the tree the last run left
Rerun ==
    /\ pc = "done"
    /\ run < MaxRuns
    /\ run' = run + 1
    /\ pc' = "start"
    /\ UNCHANGED <<takeout_dir, fs, fixes, errors, json_files, image_files,
                   idx, not_found, fs0, prev, image_file, time>>

\* one run of execute
Next == Scan \/ Normalize \/ NormalizeDone \/ Fix \/ Generate \/ Report

Spec == Init /\ [][Next]_vars

\* runs of execute one after the other on the same tree
NextRerun == Scan \/ Normalize \/ NormalizeDone \/ Fix \/ Generate \/ Report \/ Rerun

SpecRerun == Init /\ [][NextRerun]_vars

-----------------------------------------------------------------------------
(* infer_time_from_image_file on its own: one call on one path.            *)

Dates == { <<"2","0","2","1","0","5","2","9">>, <<"2","0","2","1","1","3","4","0">>, <<"2","0","2","0","0","2","2","9">>, <<"2","0","2","1","0","2","2","9">>, <<"0","0","0","0","0","1","0","1">> }

Times == { <<"1","5","5","5","3","9">>, <<"2","5","0","0","0","0">> }

\* base names: one stamp, a stamp inside longer digit runs, two stamps, a
\* 17-digit run, an underscored 14-digit run, a bare 14-digit run, no digits
InferNames ==
    {d \o <<"_">> \o h : d \in Dates, h \in Times}
    \cup {<<"9">> \o d \o <<"_">> \o h \o <<"7">> : d \in Dates, h \in Times}
    \cup {d \o <<"_">> \o h \o <<"x">> \o e \o <<"_">> \o g :
            d \in Dates, h \in Times, e \in Dates, g \in Times}
    \cup {<<"C", "-">> \o d \o h \o <<"2", "6", "1">> : d \in Dates, h \in Times}
    \cup {<<"D", "_">> \o d \o h \o <<"_", "7">> : d \in Dates, h \in Times}
    \cup {d \o h : d \in Dates, h \in Times}
    \cup {<<"P", "0", "1">>}

InferDirs == { <<"/","t","/","P","h","o","t","o","s"," ","f","r","o","m"," ","2","0","1","9">>, <<"/","t","/","P","h","o","t","o","s"," ","f","r","o","m"," ","0","0","0","0">>, <<"/","t","/","m","i","s","c">> }

InferInputs == {join(d, n \o <<".", "j", "p", "g">>) : d \in InferDirs, n \in InferNames}

InitInfer ==
    /\ image_file \in InferInputs
    /\ time = None
    /\ errors = <<>>
    /\ pc = "call"
    /\ takeout_dir = <<>>
    /\ fs = <<>>
    /\ fixes = <<>>
    /\ json_files = <<>>
    /\ image_files = <<>>
    /\ idx = 1
    /\ not_found = <<>>
    /\ run = 1
    /\ fs0 = <<>>
    /\ prev = NoCall

\* time = self.infer_time_from_image_file(image_file)
Infer ==
    /\ pc = "call"
    /\ LET r == infer_time_from_image_file(image_file)
       IN  /\ time' = r.ret
           /\ errors' = errors \o r.errors
    /\ pc' = "returned"
    /\ UNCHANGED <<takeout_dir, fs, fixes, json_files, image_files, idx,
                   not_found, run, fs0, prev, image_file>>

NextInfer == Infer

SpecInfer == InitInfer /\ [][NextInfer]_vars

-----------------------------------------------------------------------------
(* Vocabulary of the claims.                                               *)

\* the call that ran last and the file it ran on
After(op) == prev.op = op

\* a calendar date and a time of day
CalendarValid(y, mo, d, h, mi, sec) ==
    /\ y \in 1..9999
    /\ mo \in 1..12
    /\ d \in 1..31
    /\ (mo \in {4, 6, 9, 11} => d <= 30)
    /\ (mo = 2 => d <= 29)
    /\ (mo = 2 /\ d = 29 => (y % 4 = 0 /\ (y % 100 # 0 \/ y % 400 = 0)))
    /\ h \in 0..23
    /\ mi \in 0..59
    /\ sec \in 0..59

\* the six numbers of the YYYYMMDD_HHMMSS run that starts at position i of n
StampAt(n, i) ==
    <<Group(n, i, 4), Group(n, i + 4, 2), Group(n, i + 6, 2),
      Group(n, i + 9, 2), Group(n, i + 11, 2), Group(n, i + 13, 2)>>

ValidStampAt(n, i) ==
    /\ MatchStampAt(n, i)
    /\ LET g == StampAt(n, i)
       IN  CalendarValid(g[1], g[2], g[3], g[4], g[5], g[6])

\* the positions of the YYYYMMDD_HHMMSS runs of the base name of a path
StampPositions(img) ==
    {i \in 1..Len(filename_without_ext(img)) :
        MatchStampAt(filename_without_ext(img), i)}

\* the call returned the date and time of the run at position i
ReturnedStamp(img, i) ==
    /\ time.tag = "datetime"
    /\ time.dt = StampAt(filename_without_ext(img), i) \o <<0>>

(* C6, as stated: whenever the base name holds a YYYYMMDD_HHMMSS run that  *)
(* is a calendar-valid date and time, infer_time_from_image_file returns   *)
(* the date and time of such a run and records no error, whatever else the *)
(* name holds.                                                             *)
C6_AnyValidStampIsReturned ==
    (pc = "returned"
        /\ \E i \in StampPositions(image_file) :
               ValidStampAt(filename_without_ext(image_file), i))
    => /\ \E i \in StampPositions(image_file) :
              /\ ValidStampAt(filename_without_ext(image_file), i)
              /\ ReturnedStamp(image_file, i)
       /\ errors = <<>>

(* C6, amended: whenever the LEFTMOST YYYYMMDD_HHMMSS run of the base name *)
(* is a calendar-valid date and time, infer_time_from_image_file returns   *)
(* exactly that date and time and records no error, whatever else the name *)
(* holds.                                                                  *)
C6_LeftmostValidStampIsReturned ==
    pc = "returned" =>
        \A i \in StampPositions(image_file) :
            (/\ \A j \in StampPositions(image_file) : i <= j
             /\ ValidStampAt(filename_without_ext(image_file), i))
            => (ReturnedStamp(image_file, i) /\ errors = <<>>)

\* a name with two runs, the leftmost valid and the other not, was resolved
\* to the leftmost one
C6_Witness ==
    /\ pc = "returned"
    /\ \E i, j \in StampPositions(image_file) :
          /\ i < j
          /\ \A k \in StampPositions(image_file) : i <= k
          /\ ValidStampAt(filename_without_ext(image_file), i)
          /\ ~ValidStampAt(filename_without_ext(image_file), j)
          /\ ReturnedStamp(image_file, i)
    /\ errors = <<>>

\* the rule that decides: the first of the four that matches, 0 for none
DecidingRule(img) ==
    IF SearchStamp(filename_without_ext(img)) # 0 THEN 1
    ELSE IF SearchMillis(filename_without_ext(img)) # 0 THEN 2
    ELSE IF SearchUnderscored(filename_without_ext(img)) # 0 THEN 3
    ELSE IF SearchDirYear(img) # 0 THEN 4
    ELSE 0

\* the digit groups the deciding rule extracts are no calendar date and time
DecidingRuleInvalid(img) ==
    LET n == filename_without_ext(img)
        m1 == SearchStamp(n)
        m2 == SearchMillis(n)
        m3 == SearchUnderscored(n)
        m4 == SearchDirYear(img)
    IN  CASE DecidingRule(img) = 1 -> ~ValidStampAt(n, m1)
          [] DecidingRule(img) = 2 ->
                ~CalendarValid(Group(n, m2, 4), Group(n, m2 + 4, 2),
                               Group(n, m2 + 6, 2), Group(n, m2 + 8, 2),
                               Group(n, m2 + 10, 2), Group(n, m2 + 12, 2))
          [] DecidingRule(img) = 3 ->
                ~CalendarValid(Group(n, m3 + 1, 4), Group(n, m3 + 5, 2),
                               Group(n, m3 + 7, 2), Group(n, m3 + 9, 2),
                               Group(n, m3 + 11, 2), Group(n, m3 + 13, 2))
          [] DecidingRule(img) = 4 ->
                ~CalendarValid(Group(img, m4, 4), 1, 1, 0, 0, 0)
          [] OTHER -> FALSE

(* C7: when the highest-priority rule that matches (YYYYMMDD_HHMMSS, the   *)
(* 17-digit run, _YYYYMMDDHHMMSS_, the directory year) extracts digits     *)
(* that are no calendar-valid date and time, infer_time_from_image_file    *)
(* returns no timestamp and appends exactly one "invalid date in filename" *)
(* error.                                                                  *)
C7_InvalidMatchStopsInference ==
    (pc = "returned" /\ DecidingRuleInvalid(image_file))
    => /\ time = None
       /\ Len(errors) = 1
       /\ errors[1] = InvalidDate(image_file)

\* p names a canonical sidecar: <media filename with extension>.supplemental-metadata.json
IsCanonicalSidecar(p) ==
    /\ EndsWith(p, <<".">> \o METADATA_JSON)
    /\ IsImage(SubSeq(p, 1, Len(p) - Len(METADATA_JSON) - 1))

\* the directory that holds p is named "Photos from <digits>"
InYearBucket(p) ==
    LET d == basename(dirname(p))
    IN  /\ StartsAt(d, PhotosFrom, 1)
        /\ Len(d) > Len(PhotosFrom)
        /\ AllDigits(d, Len(PhotosFrom) + 1, Len(d))

\* for a media file B(N).ext: the sidecar at B.supplemental-metadata(N).json
MisplacedSidecar(img) ==
    LET n == filename_without_ext(img)
        m == SearchNum(n)
    IN  join(dirname(img),
             SubSeq(n, 1, m - 1) \o SUPPLEMENTAL_METADATA
             \o SubSeq(n, m, Len(n)) \o DOT_JSON)

(* C1: for a media file B(N).ext with a sidecar at                         *)
(* B.supplemental-metadata(N).json in the same directory and none at the   *)
(* canonical path, after fix_metadata_file_for_image a sidecar exists at   *)
(* the canonical path and the wrongly-placed path is gone.                 *)
C1_NumberedDuplicateRepaired ==
    (/\ After("fix")
     /\ SearchNum(filename_without_ext(prev.arg)) # 0
     /\ MisplacedSidecar(prev.arg) \in DOMAIN prev.fs
     /\ metadata_file_for(prev.arg) \notin DOMAIN prev.fs)
    => /\ metadata_file_for(prev.arg) \in DOMAIN fs
       /\ MisplacedSidecar(prev.arg) \notin DOMAIN fs

(* C2: once a file exists at a canonical sidecar path, no later operation  *)
(* of the run replaces its content: every call of the run leaves every     *)
(* canonical sidecar that existed before it in place, content unchanged.   *)
C2_ExistingSidecarsNeverOverwritten ==
    \A q \in DOMAIN prev.fs :
        IsCanonicalSidecar(q) => (q \in DOMAIN fs /\ fs[q] = prev.fs[q])

(* C3: when a file is present at the canonical sidecar path of a media     *)
(* file as generate_metadata_for_image_file is called on it, the call      *)
(* leaves the filesystem unchanged and appends nothing to the fixes list.  *)
C3_SynthesisNoOpWhenSidecarExists ==
    (After("generate") /\ metadata_file_for(prev.arg) \in DOMAIN prev.fs)
    => (fs = prev.fs /\ fixes = prev.fixes)

\* synthesis was called on a media file whose sidecar the recovery step of
\* the same run had just created
C3_Witness ==
    /\ After("generate")
    /\ metadata_file_for(prev.arg) \in DOMAIN prev.fs
    /\ metadata_file_for(prev.arg) \notin DOMAIN fs0
    /\ fs = prev.fs
    /\ fixes = prev.fixes

\* the canonical sidecar of the file named like img without the marker,
\* in the directory of img
OriginalSidecar(img) ==
    metadata_file_for(join(dirname(img), Replace(filename(img), EDITADA, <<>>)))

(* C4: for a media file whose name contains -editada, if the canonical     *)
(* sidecar of the same filename with the marker removed exists in the same *)
(* directory, then after fix_metadata_file_for_image the canonical sidecar *)
(* of the edited file exists with the same content, and the original's     *)
(* sidecar still exists with unchanged content.                            *)
C4_EditedVariantIsCopied ==
    (/\ After("fix")
     /\ Contains(filename(prev.arg), EDITADA)
     /\ OriginalSidecar(prev.arg) \in DOMAIN prev.fs)
    => /\ metadata_file_for(prev.arg) \in DOMAIN fs
       /\ OriginalSidecar(prev.arg) \in DOMAIN fs
       /\ fs[metadata_file_for(prev.arg)] = prev.fs[OriginalSidecar(prev.arg)]
       /\ fs[OriginalSidecar(prev.arg)] = prev.fs[OriginalSidecar(prev.arg)]

\* the files a sequence of paths or of recorded errors names
Listed(seq) == {seq[k] : k \in 1..Len(seq)}

(* C5: a file whose immediate parent directory is not named                *)
(* "Photos from <digits>" is never classified as media or sidecar, never   *)
(* created, renamed, overwritten or deleted, and never appears in the      *)
(* errors list or the unresolved list.                                     *)
C5_FilesOutsideYearBucketsUntouched ==
    \A q \in DOMAIN fs0 \cup DOMAIN fs :
        ~InYearBucket(q) =>
            /\ q \in DOMAIN fs0
            /\ q \in DOMAIN fs
            /\ fs[q] = fs0[q]
            /\ q \notin Listed(image_files) \cup Listed(json_files)
            /\ q \notin Listed(not_found)
            /\ q \notin {e.file : e \in Listed(errors)}

\* the four states of a media file when the run is over
KeptSidecar(img) ==
    /\ metadata_file_for(img) \in DOMAIN fs
    /\ metadata_file_for(img) \in DOMAIN fs0
    /\ fs[metadata_file_for(img)] = fs0[metadata_file_for(img)]

RecoveredSidecar(img) ==
    /\ metadata_file_for(img) \in DOMAIN fs
    /\ \E q \in DOMAIN fs0 :
          q # metadata_file_for(img) /\ fs[metadata_file_for(img)] = fs0[q]

SynthesizedSidecar(img) ==
    /\ metadata_file_for(img) \in DOMAIN fs
    /\ fs[metadata_file_for(img)].kind = "synth"

Unresolved(img) ==
    /\ metadata_file_for(img) \notin DOMAIN fs
    /\ img \in Listed(not_found)

(* C8: when execute completes, every discovered media file is in exactly   *)
(* one of four states: it has the canonical sidecar it started with, one   *)
(* recovered from another exported sidecar, a synthesized one, or none and *)
(* is listed as unresolved; and it is listed as unresolved if and only if  *)
(* no file exists at its canonical sidecar path.                           *)
C8_EndOfRunPartition ==
    pc = "done" =>
        \A img \in Listed(image_files) :
            /\ Cardinality({k \in 1..4 :
                              \/ k = 1 /\ KeptSidecar(img)
                              \/ k = 2 /\ RecoveredSidecar(img)
                              \/ k = 3 /\ SynthesizedSidecar(img)
                              \/ k = 4 /\ Unresolved(img)}) = 1
            /\ (img \in Listed(not_found)
                    <=> metadata_file_for(img) \notin DOMAIN fs)

\* a completed run that left one media file with a recovered sidecar and
\* another one unresolved
C8_Witness ==
    /\ pc = "done"
    /\ \E a, b \in Listed(image_files) :
          /\ RecoveredSidecar(a)
          /\ Unresolved(b)
    /\ fixes # <<>>
    /\ errors # <<>>

(* C9: a date that cannot be formed, from the filename or from the         *)
(* directory year, only adds an entry to the error list: the run is never  *)
(* aborted, and it completes only after every discovered media file went   *)
(* through recovery and synthesis.                                         *)
C9_RecordedErrorsNeverAbort ==
    /\ pc # "crashed"
    /\ (pc = "done" => idx = Len(image_files) + 1)

(* C10: running execute again on the tree a completed run left changes no  *)
(* file name and no file content and records an empty fixes list.          *)
C10_SecondRunChangesNothing ==
    (run >= 2 /\ pc = "done") => (fs = fs0 /\ fixes = <<>>)

====
